---- MODULE Spec2Model ----
(***************************************************************************)
(* Tree reductions over chunked arrays: dask/array/reductions.py.          *)
(*                                                                         *)
(* `reduction` builds a task graph: chunk on every block (atop), depth-1   *)
(* levels of partial_reduce with the combine function, one partial_reduce  *)
(* with the aggregate function.  The graph is evaluated by Compute, block  *)
(* by block, on the data of the source array.                              *)
(*                                                                         *)
(* Conventions.  Axes and block indices are 0-based as in the source; a    *)
(* tuple is a TLA+ sequence, so axis a sits at position a+1.  An ndarray   *)
(* is [shape, v] with v a function of the 0-based coordinate tuples.       *)
(* Booleans produced by any/all are written 1/0.  Names (tokens) are       *)
(* sequences of strings.  f4 sums round to 24 significant bits; f8         *)
(* quantities of the moment algorithms are exact rationals <<num, den>>    *)
(* (the real-number value of the f8 computation).                          *)
(***************************************************************************)
EXTENDS Integers, Sequences, FiniteSets, TLC

VARIABLES x, call, pc, axis, max_leaves, tmp, depth, levels, out

vars == <<x, call, pc, axis, max_leaves, tmp, depth, levels, out>>

(***************************************************************************)
(* Bounds of the explored inputs.                                          *)
(***************************************************************************)
MaxLen1 == 5
MaxLen2 == 3
MaxFanin == 3
MaxBudget == 4
MaxN == 3
FloatLen == 4
MaxVal == 1

-----------------------------------------------------------------------------
(* Integer and sequence helpers.                                           *)

Range(n) == 0 .. (n - 1)

\* f itself, as an explicit table (TLC then evaluates each entry once)
Tab(f) == f @@ <<>>

Abs(i) == IF i < 0 THEN -i ELSE i

RECURSIVE Gcd(_, _)
Gcd(a, b) == IF b = 0 THEN a ELSE Gcd(b, a % b)

RECURSIVE SeqSum(_)
SeqSum(s) == IF s = <<>> THEN 0 ELSE Head(s) + SeqSum(Tail(s))

RECURSIVE Pow(_, _)
Pow(b, e) == IF e = 0 THEN 1 ELSE b * Pow(b, e - 1)

SetMax(S) == CHOOSE m \in S : \A o \in S : o <= m

SetMin(S) == CHOOSE m \in S : \A o \in S : m <= o

RECURSIVE Flatten(_)
Flatten(ss) == IF ss = <<>> THEN <<>> ELSE Head(ss) \o Flatten(Tail(ss))

\* the elements of a tuple, as a set
Elems(s) == {s[i] : i \in 1 .. Len(s)}

\* the increasing enumeration of a finite set of integers
RECURSIVE SortedSeq(_)
SortedSeq(S) == IF S = {} THEN <<>> ELSE <<SetMin(S)>> \o SortedSeq(S \ {SetMin(S)})

-----------------------------------------------------------------------------
(* Rationals <<num, den>>, den > 0 in lowest terms; <<0, 0>> is nan.       *)

RNorm(n, d) ==
    IF d = 0 THEN <<0, 0>>
    ELSE LET g == Gcd(Abs(n), Abs(d))
             s == IF d < 0 THEN -1 ELSE 1
         IN  <<(s * n) \div g, (s * d) \div g>>

RInt(i) == <<i, 1>>

RAdd(a, b) == IF a[2] = 0 \/ b[2] = 0 THEN <<0, 0>>
              ELSE RNorm(a[1] * b[2] + b[1] * a[2], a[2] * b[2])

RSub(a, b) == IF a[2] = 0 \/ b[2] = 0 THEN <<0, 0>>
              ELSE RNorm(a[1] * b[2] - b[1] * a[2], a[2] * b[2])

RMul(a, b) == IF a[2] = 0 \/ b[2] = 0 THEN <<0, 0>>
              ELSE RNorm(a[1] * b[1], a[2] * b[2])

\* numpy divide: x/0 is inf or nan, never an exception; both are written nan
RDiv(a, b) == IF a[2] = 0 \/ b[2] = 0 \/ b[1] = 0 THEN <<0, 0>>
              ELSE RNorm(a[1] * b[2], a[2] * b[1])

RECURSIVE RSum(_)
RSum(s) == IF s = <<>> THEN RInt(0) ELSE RAdd(Head(s), RSum(Tail(s)))

-----------------------------------------------------------------------------
(* f4 addition: the exact sum rounded to 24 significant bits, ties to the  *)
(* even significand.  Operands are non-negative integers.                  *)

F4Mant == 16777216

RECURSIVE Ulp(_, _)
Ulp(s, u) == IF s < F4Mant * u THEN u ELSE Ulp(s, 2 * u)

RoundF4(s) ==
    LET u == Ulp(s, 1)
        q == s \div u
        r == s % u
    IN  IF 2 * r < u THEN q * u
        ELSE IF 2 * r > u THEN (q + 1) * u
        ELSE IF q % 2 = 0 THEN q * u ELSE (q + 1) * u

Add(dtype, a, b) == IF dtype = "f4" THEN RoundF4(a + b) ELSE a + b

-----------------------------------------------------------------------------
(* ndarrays.                                                               *)

Coords(shape) ==
    {c \in [1 .. Len(shape) -> Range(SetMax(Elems(shape) \cup {1}))] :
        \A i \in 1 .. Len(shape) : c[i] < shape[i]}

\* all coordinates of a shape in row-major order
RECURSIVE CoordSeq(_)
CoordSeq(shape) ==
    IF shape = <<>> THEN << <<>> >>
    ELSE LET rest == CoordSeq(Tail(shape))
             m == Len(rest)
         IN  [k \in 1 .. (shape[1] * m) |->
                 <<(k - 1) \div m>> \o rest[((k - 1) % m) + 1]]

\* the elements an output position c reduces over the axes A, in row-major order
Lane(a, A, c) ==
    LET n == Len(a.shape)
        ls == [i \in 1 .. n |-> IF (i - 1) \in A THEN a.shape[i] ELSE 1]
        cs == CoordSeq(ls)
    IN  [k \in 1 .. Len(cs) |->
            a.v[[i \in 1 .. n |-> IF (i - 1) \in A THEN cs[k][i] ELSE c[i]]]]

KeptShape(shape, A) == [i \in 1 .. Len(shape) |-> IF (i - 1) \in A THEN 1 ELSE shape[i]]

\* the positions (1-based) of a tuple that survive dropping the axes A
KeptPos(n, A) == SortedSeq({i \in 1 .. n : (i - 1) \notin A})

\* toolz get(out_axis, k): the entries of k at the kept positions
DropPos(k, A) == [j \in 1 .. Len(KeptPos(Len(k), A)) |-> k[KeptPos(Len(k), A)[j]]]

\* numpy's removal of the size-1 reduced axes A (keepdims=False)
DropAxes(a, A) ==
    LET n == Len(a.shape)
        kp == KeptPos(n, A)
        sh == DropPos(a.shape, A)
    IN  [shape |-> sh,
         v |-> Tab([c \in Coords(sh) |->
                  a.v[[i \in 1 .. n |-> IF (i - 1) \in A THEN 0
                                        ELSE c[CHOOSE j \in 1 .. Len(kp) : kp[j] = i]]]])]

\* np.concatenate(arrs, axis=k)
Concatenate(arrs, k) ==
    LET n == Len(arrs[1].shape)
        len(j) == arrs[j].shape[k + 1]
        off(j) == SeqSum([i \in 1 .. (j - 1) |-> len(i)])
        sh == [i \in 1 .. n |-> IF i = k + 1 THEN off(Len(arrs) + 1) ELSE arrs[1].shape[i]]
    IN  [shape |-> sh,
         v |-> Tab([c \in Coords(sh) |->
                  LET j == CHOOSE j \in 1 .. Len(arrs) :
                               off(j) <= c[k + 1] /\ c[k + 1] < off(j) + len(j)
                  IN  arrs[j].v[[i \in 1 .. n |-> IF i = k + 1 THEN c[i] - off(j) ELSE c[i]]]])]

-----------------------------------------------------------------------------
(* The per-block primitives, on one lane (the elements one output position *)
(* reduces, in order).                                                     *)

RECURSIVE SumFrom(_, _, _, _)
SumFrom(dtype, es, i, acc) ==
    IF i > Len(es) THEN acc ELSE SumFrom(dtype, es, i + 1, Add(dtype, acc, es[i]))

\* chunk.sum = np.sum with the accumulator of the given dtype
SumLane(dtype, es) == SumFrom(dtype, es, 2, es[1])

MinLane(es) == SetMin(Elems(es))

MaxLane(es) == SetMax(Elems(es))

AnyLane(es) == IF \E i \in 1 .. Len(es) : es[i] # 0 THEN 1 ELSE 0

AllLane(es) == IF \A i \in 1 .. Len(es) : es[i] # 0 THEN 1 ELSE 0

\* chunk.argmax / chunk.argmin: the 0-based index of the first extreme
ArgLane(which, es) ==
    LET m == IF which = "max" THEN MaxLane(es) ELSE MinLane(es)
    IN  SetMin({i \in 1 .. Len(es) : es[i] = m}) - 1

PlainLane(f, dtype, es) ==
    CASE f = "chunk.sum" -> SumLane(dtype, es)
      [] f = "chunk.min" -> MinLane(es)
      [] f = "chunk.max" -> MaxLane(es)
      [] f = "chunk.any" -> AnyLane(es)
      [] f = "chunk.all" -> AllLane(es)

PlainFns == {"chunk.sum", "chunk.min", "chunk.max", "chunk.any", "chunk.all"}

\* np.<f>(a, axis=A, keepdims=True)
ReduceKeep(f, dtype, a, A) ==
    LET sh == KeptShape(a.shape, A)
    IN  [shape |-> sh, v |-> Tab([c \in Coords(sh) |-> PlainLane(f, dtype, Lane(a, A, c))])]

-----------------------------------------------------------------------------
(* argmin / argmax records {vals, arg, n}.                                 *)

Which(f) == IF f \in {"arg_chunk.max", "arg_combine.max", "arg_agg.max"} THEN "max" ELSE "min"

arg_chunk(which, a, ax) ==
    LET sh == KeptShape(a.shape, {ax})
    IN  [shape |-> sh,
         v |-> Tab([c \in Coords(sh) |->
                  LET es == Lane(a, {ax}, c)
                  IN  [vals |-> IF which = "max" THEN MaxLane(es) ELSE MinLane(es),
                       arg |-> ArgLane(which, es),
                       n |-> a.shape[ax + 1]]])]

\* a variant with the inclusive prefix sums (np.cumsum alone)
Offsets_Inclusive(ns) == [j \in 1 .. Len(ns) |-> SeqSum([i \in 1 .. j |-> ns[i]])]

\* np.roll(np.cumsum(ns), 1) with entry 0 set to 0: the exclusive prefix sums
Offsets(ns) == [j \in 1 .. Len(ns) |-> SeqSum([i \in 1 .. (j - 1) |-> ns[i]])]

\* _arg_combine on the lanes along ax; n is read at index 0 of the first
\* remaining axis (take(0, 0)) and broadcast
_arg_combine(which, data, ax) ==
    LET sh == KeptShape(data.shape, {ax})
        nd == Len(data.shape)
        others == {i \in 1 .. nd : i # ax + 1}
        c0(c) == IF others = {} THEN c
                 ELSE [i \in 1 .. nd |-> IF i = SetMin(others) THEN 0 ELSE c[i]]
        rec(c) ==
            LET es == Lane(data, {ax}, c)
                vals == [j \in 1 .. Len(es) |-> es[j].vals]
                ns == [j \in 1 .. Len(es) |-> es[j].n]
                ns0 == [j \in 1 .. Len(es) |-> Lane(data, {ax}, c0(c))[j].n]
                j == ArgLane(which, vals) + 1
            IN  [vals |-> vals[j], arg |-> es[j].arg + Offsets(ns)[j], n |-> SeqSum(ns0)]
    IN  [shape |-> sh, v |-> Tab([c \in Coords(sh) |-> rec(c)])]

arg_combine(which, data, ax) == _arg_combine(which, data, ax)

arg_agg(which, data, ax) ==
    LET r == DropAxes(_arg_combine(which, data, ax), {ax})
    IN  [shape |-> r.shape, v |-> Tab([c \in DOMAIN r.v |-> r.v[c].arg])]

-----------------------------------------------------------------------------
(* variance (moment of order 2) records {total, n, M}.                     *)

RSq(a) == RMul(a, a)

moment_chunk(a, A) ==
    LET sh == KeptShape(a.shape, A)
        rec(es) ==
            LET total == RSum([i \in 1 .. Len(es) |-> RInt(es[i])])
                n == Len(es)
                u == RDiv(total, RInt(n))
            IN  [total |-> total, n |-> n,
                 M |-> RSum([i \in 1 .. Len(es) |-> RSq(RSub(RInt(es[i]), u))])]
    IN  [shape |-> sh, v |-> Tab([c \in Coords(sh) |-> rec(Lane(a, A, c))])]

\* a variant that adds the second moments without recentring them
_moment_helper_NoShift(es, mu) == RSum([i \in 1 .. Len(es) |-> es[i].M])

\* order 2: Ms.sum() + sum(ns * inner_term**2); the loop over k is empty
_moment_helper(es, mu) ==
    RAdd(RSum([i \in 1 .. Len(es) |-> es[i].M]),
         RSum([i \in 1 .. Len(es) |->
                 RMul(RInt(es[i].n), RSq(RSub(RDiv(es[i].total, RInt(es[i].n)), mu)))]))

moment_combine(data, A) ==
    LET sh == KeptShape(data.shape, A)
        rec(es) ==
            LET total == RSum([i \in 1 .. Len(es) |-> es[i].total])
                n == SeqSum([i \in 1 .. Len(es) |-> es[i].n])
                mu == RDiv(total, RInt(n))
            IN  [total |-> total, n |-> n, M |-> _moment_helper(es, mu)]
    IN  [shape |-> sh, v |-> Tab([c \in Coords(sh) |-> rec(Lane(data, A, c))])]

moment_agg(data, A, ddof) ==
    LET sh == KeptShape(data.shape, A)
        val(es) ==
            LET n == SeqSum([i \in 1 .. Len(es) |-> es[i].n])
                mu == RDiv(RSum([i \in 1 .. Len(es) |-> es[i].total]), RInt(n))
            IN  RDiv(_moment_helper(es, mu), RInt(n - ddof))
    IN  [shape |-> sh, v |-> Tab([c \in Coords(sh) |-> val(Lane(data, A, c))])]

-----------------------------------------------------------------------------
(* A function object: the python function f with the keyword arguments     *)
(* bound by partial, composed after _concatenate2 when concat is TRUE.     *)

Truthy(kd) == kd = "True"

\* partial(f, axis=axis, keepdims=kd, dtype=..., ddof=...)(a)
ApplyFn(fn, a) ==
    LET A == Elems(fn.axis)
        keep(r) == IF Truthy(fn.keepdims) THEN r ELSE DropAxes(r, A)
    IN  CASE fn.f \in PlainFns -> keep(ReduceKeep(fn.f, fn.dtype, a, A))
          [] fn.f \in {"arg_chunk.max", "arg_chunk.min"} -> arg_chunk(Which(fn.f), a, fn.axis[1])
          [] fn.f \in {"arg_combine.max", "arg_combine.min"} ->
                 arg_combine(Which(fn.f), a, fn.axis[1])
          [] fn.f \in {"arg_agg.max", "arg_agg.min"} -> arg_agg(Which(fn.f), a, fn.axis[1])
          [] fn.f = "moment_chunk" -> moment_chunk(a, A)
          [] fn.f = "moment_combine" -> moment_combine(a, A)
          [] fn.f = "moment_agg" -> keep(moment_agg(a, A, fn.ddof))

-----------------------------------------------------------------------------
(* Names, keys, tasks and graphs.                                          *)

TokInts(s) == <<"(">> \o [i \in 1 .. Len(s) |-> ToString(s[i])] \o <<")">>

\* a dict, as its items in key order
TokDict(d) ==
    LET ks == SortedSeq(DOMAIN d)
    IN  <<"{">> \o Flatten([i \in 1 .. Len(ks) |-> <<ToString(ks[i]), ToString(d[ks[i]])>>])
            \o <<"}">>

TokFn(fn) ==
    <<IF fn.concat THEN "compose" ELSE "partial", fn.f, "axis">> \o TokInts(fn.axis)
        \o <<"keepdims", fn.keepdims, "dtype", fn.dtype, "ddof", ToString(fn.ddof)>>

\* base.tokenize: a deterministic hash of its arguments, kept as the
\* arguments themselves (no two contents share a token)
tokenize(parts) == Flatten(parts)

Key(name, idx) == [name |-> name, idx |-> idx]

NoKey == Key(<<>>, <<>>)

\* the argument of a task: one key, or a (nested) list of arguments
Leaf(k) == [leaf |-> TRUE, key |-> k, items |-> <<>>]

List(gs) == [leaf |-> FALSE, key |-> NoKey, items |-> gs]

Task(fn, g) == [func |-> fn, args |-> g]

DataFn(dtype) ==
    [f |-> "data", axis |-> <<>>, keepdims |-> "None", dtype |-> dtype, ddof |-> 0,
     concat |-> FALSE]

\* toolz.merge(a, b): b wins on a shared key
merge(a, b) ==
    Tab([k \in (DOMAIN a) \cup (DOMAIN b) |-> IF k \in DOMAIN b THEN b[k] ELSE a[k]])

numblocks(a) == [i \in 1 .. Len(a.chunks) |-> Len(a.chunks[i])]

ndim(a) == Len(a.chunks)

\* Array(dask, name, chunks)
Array(dsk, name, chunks) == [name |-> name, chunks |-> chunks, dask |-> dsk]

\* the graph of a source array: one data task per block
SourceDask(src) ==
    [k \in {Key(src.name, c) : c \in Coords(numblocks(src))} |-> Task(DataFn(src.dtype), Leaf(k))]

\* the block idx of the source: the slice of its data
Block(src, idx) ==
    LET n == Len(src.chunks)
        off == [i \in 1 .. n |-> SeqSum(SubSeq(src.chunks[i], 1, idx[i]))]
        sh == [i \in 1 .. n |-> src.chunks[i][idx[i] + 1]]
    IN  [shape |-> sh,
         v |-> Tab([c \in Coords(sh) |-> src.data.v[[i \in 1 .. n |-> c[i] + off[i]]]])]

\* core.lol_tuples((name,), range(ndim), decided, dummy), from axis i on
RECURSIVE lol_tuples(_, _, _, _, _, _)
lol_tuples(name, head, i, nd, decided, dummy) ==
    IF i = nd THEN Leaf(Key(name, head))
    ELSE IF i \notin DOMAIN dummy
         THEN lol_tuples(name, Append(head, decided[i]), i + 1, nd, decided, dummy)
         ELSE List([j \in 1 .. Len(dummy[i]) |->
                      lol_tuples(name, Append(head, dummy[i][j]), i + 1, nd, decided, dummy)])

\* The scheduler's evaluation of a key, and core._concatenate2 on the
\* evaluated argument: level l of the nested list is joined along axes[l];
\* an argument that is no list is returned as it is.
RECURSIVE Eval(_, _, _)
RECURSIVE _concatenate2(_, _, _, _)
_concatenate2(dsk, src, g, axes) ==
    IF g.leaf THEN Eval(dsk, src, g.key)
    ELSE Concatenate(Tab([i \in 1 .. Len(g.items) |->
                             IF Len(axes) > 1
                             THEN _concatenate2(dsk, src, g.items[i], Tail(axes))
                             ELSE Eval(dsk, src, g.items[i].key)]),
                     axes[1])

Eval(dsk, src, key) ==
    LET t == dsk[key]
    IN  IF t.func.f = "data" THEN Block(src, key.idx)
        ELSE IF t.func.concat THEN ApplyFn(t.func, _concatenate2(dsk, src, t.args, t.func.axis))
        ELSE ApplyFn(t.func, Eval(dsk, src, t.args.key))

\* core.atop(func, inds, x, inds): func on every block
atop(fn, xa) ==
    LET name == <<"atop">> \o tokenize(<<TokFn(fn), xa.name>>)
        dsk == [k \in {Key(name, c) : c \in Coords(numblocks(xa))} |->
                   Task(fn, Leaf(Key(xa.name, k.idx)))]
    IN  Array(merge(dsk, xa.dask), name, xa.chunks)

-----------------------------------------------------------------------------
(* partial_reduce.                                                         *)

\* toolz.partition in its place: the short last group is dropped
partition_all_Partition(n, N) ==
    [g \in 1 .. (N \div n) |-> [j \in 1 .. n |-> (g - 1) * n + j - 1]]

\* toolz.partition_all(n, range(N)), n >= 1: consecutive groups of n, the
\* last one shorter
partition_all(n, N) ==
    [g \in 1 .. ((N + n - 1) \div n) |->
        [j \in 1 .. (IF g * n <= N THEN n ELSE N - (g - 1) * n) |-> (g - 1) * n + j - 1]]

\* max_leaves.get(i, 1)
GetLeaves(ml, i) == IF i \in DOMAIN ml THEN ml[i] ELSE 1

LexLeq(a, b) ==
    \/ a = b
    \/ \E i \in 1 .. Len(a) : a[i] < b[i] /\ \A j \in 1 .. (i - 1) : a[j] = b[j]

\* the key of the output task of the group tuple gi
OutIdx(gi, ml, keepdims) == IF Truthy(keepdims) THEN gi ELSE DropPos(gi, DOMAIN ml)

partial_reduce(fn, xa, ml, keepdims, dtype, name0) ==
    LET nd == ndim(xa)
        name == IF name0 # <<>> THEN name0
                ELSE <<"p_reduce">> \o
                     tokenize(<<TokFn(fn), xa.name, TokDict(ml), <<keepdims, dtype>>>>)
        parts == [i \in 1 .. nd |-> partition_all(GetLeaves(ml, i - 1), numblocks(xa)[i])]
        gis == Coords([i \in 1 .. nd |-> Len(parts[i])])
        chunks1 == [i \in 1 .. nd |->
                      IF (i - 1) \in DOMAIN ml THEN [g \in 1 .. Len(parts[i]) |-> 1]
                      ELSE xa.chunks[i]]
        out_chunks == IF Truthy(keepdims) THEN chunks1 ELSE DropPos(chunks1, DOMAIN ml)
        task(gi) ==
            LET p == [i \in 1 .. nd |-> parts[i][gi[i] + 1]]
                dec == {i \in Range(nd) : Len(p[i + 1]) = 1}
                decided == [i \in dec |-> p[i + 1][1]]
                dummy == [i \in Range(nd) \ dec |-> p[i + 1]]
            IN  Task(fn, lol_tuples(xa.name, <<>>, 0, nd, decided, dummy))
        \* dsk[(name,) + k] = ... in product order: the last group tuple wins
        last(k) == CHOOSE gi \in gis :
                       /\ OutIdx(gi, ml, keepdims) = k
                       /\ \A o \in gis : OutIdx(o, ml, keepdims) = k => LexLeq(o, gi)
        dsk == [k \in {Key(name, OutIdx(gi, ml, keepdims)) : gi \in gis} |-> task(last(k.idx))]
    IN  Array(merge(dsk, xa.dask), name, out_chunks)

-----------------------------------------------------------------------------
(* reduction, stage by stage.                                              *)

AxisNone == [kind |-> "none", val |-> <<>>]

AxisInt(a) == [kind |-> "int", val |-> <<a>>]

AxisTuple(t) == [kind |-> "tuple", val |-> t]

LeavesNone == [kind |-> "none", n |-> 0, d |-> <<>>]

LeavesInt(n) == [kind |-> "int", n |-> n, d |-> <<>>]

LeavesDict(d) == [kind |-> "dict", n |-> 0, d |-> d]

\* lines 24-28: axis=None is every axis, an int is a 1-tuple, a negative
\* index i becomes ndim + i; nothing is rejected
NormAxis(nd, a) ==
    LET t == IF a.kind = "none" THEN [i \in 1 .. nd |-> i - 1] ELSE a.val
    IN  [i \in 1 .. Len(t) |-> IF t[i] >= 0 THEN t[i] ELSE nd + t[i]]

\* int(b ** (1/r)): the integer part of the r-th root
FloorRoot(b, r) == SetMax({m \in 0 .. b : Pow(m, r) <= b})

\* lines 36-42
NormLeaves(ml, ax, nb) ==
    IF ml.kind = "dict"
    THEN [k \in Elems(ax) |-> IF k \in DOMAIN ml.d THEN ml.d[k] ELSE 2]
    ELSE IF ml.kind = "int"
    THEN [k \in Elems(ax) |-> SetMax({FloorRoot(ml.n, Len(ax)), 2})]
    ELSE [k \in {i \in Range(Len(nb)) : i \in Elems(ax)} |-> nb[k + 1]]

\* the functions whose signature has a dtype argument (lines 30-33)
HasDtypeArg == {"chunk.sum", "moment_chunk", "moment_agg"}

MkFn(f, ax, kd, dtype, ddof, concat) ==
    [f |-> f, axis |-> ax, keepdims |-> kd,
     dtype |-> IF f \in HasDtypeArg THEN dtype ELSE "-",
     ddof |-> IF f = "moment_agg" THEN ddof ELSE 0, concat |-> concat]

\* lines 45-48: chunk on every block; the reduced axes get chunks of size 1
MapChunks(c, xa, ax) ==
    LET t == atop(MkFn(c.chunk, ax, "True", c.dtype, c.ddof, FALSE), xa)
    IN  Array(t.dask, t.name,
              [i \in 1 .. Len(t.chunks) |->
                  IF (i - 1) \in Elems(ax) THEN [b \in 1 .. Len(t.chunks[i]) |-> 1]
                  ELSE t.chunks[i]])

\* a variant without the test max_leaves[i] != 1
Contributes_NoGuard(ml, i) == i \in DOMAIN ml

\* line 53: the axes that enter the depth
Contributes(ml, i) == i \in DOMAIN ml /\ ml[i] # 1

\* math.log(n, b) raises for b <= 0 (ValueError) and for b = 1
\* (ZeroDivisionError); n >= 1 always
LogRaises(n, b) == b <= 1

\* a variant that rounds the logarithm down
CeilLog_Floor(n, b) == SetMax({d \in 0 .. n : Pow(b, d) <= n})

\* ceil(log(n, b)), b >= 2, n >= 1
CeilLog(n, b) == SetMin({d \in 0 .. n : Pow(b, d) >= n})

\* lines 51-54
DepthRaises(nb, ml) ==
    \E i \in Range(Len(nb)) : Contributes(ml, i) /\ LogRaises(nb[i + 1], ml[i])

\* a variant that starts from depth = 2
Depth_FromTwo(nb, ml) ==
    SetMax({2} \cup {CeilLog(nb[i + 1], ml[i]) : i \in {j \in Range(Len(nb)) : Contributes(ml, j)}})

Depth(nb, ml) ==
    SetMax({1} \cup {CeilLog(nb[i + 1], ml[i]) : i \in {j \in Range(Len(nb)) : Contributes(ml, j)}})

\* lines 55-56: the function of the intermediate levels
CombineFn(c, ax) ==
    MkFn(IF c.combine # "None" THEN c.combine ELSE c.aggregate, ax, "True", c.dtype, c.ddof, TRUE)

\* lines 59-60: the function of the last level
AggregateFn(c, ax) == MkFn(c.aggregate, ax, c.keepdims, c.dtype, c.ddof, TRUE)

\* line 62: the name of the result
ReduceName(c, xa, ax) ==
    <<"reduce">> \o tokenize(<<TokFn(AggregateFn(c, ax)), xa.name, <<c.keepdims, c.dtype>>>>)

\* the whole of reduction, for a call that does not raise
RECURSIVE Levels(_, _, _, _)
Levels(fn, t, ml, k) == IF k = 0 THEN t ELSE Levels(fn, partial_reduce(fn, t, ml, "True", "None", <<>>), ml, k - 1)

reduction(xa, c) ==
    LET ax == NormAxis(ndim(xa), c.axis)
        ml == NormLeaves(c.max_leaves, ax, numblocks(xa))
        t0 == MapChunks(c, xa, ax)
        t1 == Levels(CombineFn(c, ax), t0, ml, Depth(numblocks(t0), ml) - 1)
    IN  partial_reduce(AggregateFn(c, ax), t1, ml, c.keepdims, c.dtype, ReduceName(c, xa, ax))

\* the blocks of an array, computed
Computed(a, src) ==
    Tab([k \in {q \in DOMAIN a.dask : q.name = a.name} |-> Eval(a.dask, src, k)])

-----------------------------------------------------------------------------
(* The public wrappers (lines 102-147, 333-343, 451-467).                  *)

PlainOps == {"sum", "min", "max", "any", "all"}

ArgOps == {"argmin", "argmax"}

Wrapper(op, src, a, kd, ml, ddof) ==
    LET mk(ch, ag, co, dt, k, ax, dd) ==
            [op |-> op, chunk |-> ch, aggregate |-> ag, combine |-> co, axis |-> ax,
             keepdims |-> k, dtype |-> dt, max_leaves |-> ml, ddof |-> dd]
    IN  CASE op = "sum" -> mk("chunk.sum", "chunk.sum", "None", src.dtype, kd, a, 0)
          [] op = "min" -> mk("chunk.min", "chunk.min", "None", src.dtype, kd, a, 0)
          [] op = "max" -> mk("chunk.max", "chunk.max", "None", src.dtype, kd, a, 0)
          [] op = "any" -> mk("chunk.any", "chunk.any", "None", "bool", kd, a, 0)
          [] op = "all" -> mk("chunk.all", "chunk.all", "None", "bool", kd, a, 0)
          [] op = "var" -> mk("moment_chunk", "moment_agg", "moment_combine", "f8", kd, a, ddof)
          [] op = "argmax" ->
                 mk("arg_chunk.max", "arg_agg.max", "arg_combine.max", "i8", "None",
                    AxisInt(IF a.val[1] < 0 THEN ndim(src) + a.val[1] ELSE a.val[1]), 0)
          [] op = "argmin" ->
                 mk("arg_chunk.min", "arg_agg.min", "arg_combine.min", "i8", "None",
                    AxisInt(IF a.val[1] < 0 THEN ndim(src) + a.val[1] ELSE a.val[1]), 0)

-----------------------------------------------------------------------------
(* The inputs: source arrays and calls.                                    *)

Src(chunks, dtype, data) ==
    LET s0 == [name |-> <<"x">>, chunks |-> chunks, dtype |-> dtype]
    IN  [name |-> <<"x">>, chunks |-> chunks, dtype |-> dtype, data |-> data,
         dask |-> SourceDask(s0)]

ShapeOf(chunks) == [i \in 1 .. Len(chunks) |-> SeqSum(chunks[i])]

\* an axis of length L cut every s elements
Chunking(L, s) ==
    [b \in 1 .. ((L + s - 1) \div s) |-> IF b * s <= L THEN s ELSE L - (b - 1) * s]

RegularAxes(maxLen) == {Chunking(L, s) : L \in 1 .. maxLen, s \in 1 .. maxLen}

\* every way to cut an axis of length n into blocks
RECURSIVE Compositions(_)
Compositions(n) ==
    {<<n>>} \cup UNION {{<<h>> \o t : t \in Compositions(n - h)} : h \in 1 .. (n - 1)}

Pattern(c) == (1 + SeqSum([i \in 1 .. Len(c) |-> (i + 1) * c[i]])) % 5

PatternData(chunks) ==
    [shape |-> ShapeOf(chunks), v |-> Tab([c \in Coords(ShapeOf(chunks)) |-> Pattern(c)])]

ScenarioSeq == <<3, 1, 4, 1, 5, 9, 2, 6>>

ScenarioSeqData == [shape |-> <<8>>, v |-> Tab([c \in Coords(<<8>>) |-> ScenarioSeq[c[1] + 1]])]

ScenarioSeqSrc == Src(<< <<3, 3, 2>> >>, "i8", ScenarioSeqData)

Scenario46Chunks == << <<2, 2>>, <<2, 2, 2>> >>

Scenario46Src == Src(Scenario46Chunks, "i8", PatternData(Scenario46Chunks))

\* layouts, with fixed data
LayoutSources ==
    {Src(<<a>>, "i8", PatternData(<<a>>)) : a \in RegularAxes(MaxLen1)}
        \cup {Src(<<a, b>>, "i8", PatternData(<<a, b>>)) :
                a \in RegularAxes(MaxLen2), b \in RegularAxes(MaxLen2)}
        \cup {Scenario46Src, ScenarioSeqSrc}

\* small arrays with every content
ValueSources ==
    UNION {{Src(<<cs>>, "i8", [shape |-> <<n>>, v |-> v]) :
               cs \in Compositions(n), v \in [Coords(<<n>>) -> 0 .. MaxVal]} :
           n \in 1 .. MaxN}
        \cup {Src(<<a, b>>, "i8", [shape |-> <<2, 2>>, v |-> v]) :
                a \in Compositions(2), b \in Compositions(2),
                v \in [Coords(<<2, 2>>) -> 0 .. MaxVal]}
        \cup {Src(<<[i \in 1 .. FloatLen |-> 1]>>, "f4", [shape |-> <<FloatLen>>, v |-> v]) :
                v \in [Coords(<<FloatLen>>) -> {1, F4Mant}]}
        \cup {Src(<<cs>>, "i8", ScenarioSeqData) : cs \in Compositions(8)}

AxisArgs(nd) ==
    {AxisNone} \cup {AxisInt(a) : a \in {-1, 0, nd}}
        \cup {AxisTuple(t) : t \in {<<0, 0>>, <<0, -nd>>, <<0, nd - 1>>}}

ValidAxisArgs(nd) == IF nd = 1 THEN {AxisInt(0)} ELSE {AxisNone, AxisInt(0), AxisInt(-1)}

LeavesArgs(nd) ==
    {LeavesNone, LeavesDict(<<>>)} \cup {LeavesInt(b) : b \in {2, MaxBudget}}
        \cup {LeavesDict(d) : d \in [Range(nd) -> 1 .. MaxFanin]}
        \cup {LeavesDict([i \in Range(nd) |-> 0])}

ConstLeavesArgs(nd) ==
    {LeavesNone, LeavesInt(2)} \cup {LeavesDict([i \in Range(nd) |-> f]) : f \in 0 .. MaxFanin}

LayoutCalls(src) ==
    {Wrapper(op, src, a, kd, ml, 0) :
        op \in {"sum", "var"}, a \in AxisArgs(ndim(src)), kd \in {"True", "False"},
        ml \in LeavesArgs(ndim(src))}

ValueCalls(src) ==
    {Wrapper(op, src, a, kd, ml, 0) :
        op \in IF src.dtype = "f4" THEN PlainOps ELSE PlainOps \cup {"var"},
        a \in ValidAxisArgs(ndim(src)), kd \in {"True", "False"},
        ml \in ConstLeavesArgs(ndim(src))}
      \cup {Wrapper(op, src, a, "None", ml, 0) :
              op \in IF src.dtype = "f4" THEN {} ELSE ArgOps, a \in {AxisInt(0), AxisInt(-1)},
              ml \in ConstLeavesArgs(ndim(src))}
      \cup {Wrapper("var", src, AxisNone, "False", ml, 1) :
              ml \in IF src.dtype = "f4" THEN {} ELSE ConstLeavesArgs(ndim(src))}

\* the axes numpy accepts: in [-ndim, ndim), no axis twice
ValidAxes(nd, a) ==
    LET t == NormAxis(nd, a)
    IN  /\ a.kind # "none" => \A i \in 1 .. Len(a.val) : -nd <= a.val[i] /\ a.val[i] < nd
        /\ \A i, j \in 1 .. Len(t) : t[i] = t[j] => i = j

-----------------------------------------------------------------------------
(* The state machine.                                                      *)

NoCall == [op |-> "none"]

NoArray == Array(<<>>, <<>>, <<>>)

InitWith(sources) ==
    /\ x \in sources
    /\ call = NoCall
    /\ pc = "idle"
    /\ axis = <<>>
    /\ max_leaves = <<>>
    /\ tmp = NoArray
    /\ depth = 0
    /\ levels = 0
    /\ out = <<>>

\* reduction is entered: lines 24-42
Call(calls) ==
    /\ pc = "idle"
    /\ \E c \in calls :
          /\ call' = c
          /\ axis' = NormAxis(ndim(x), c.axis)
          /\ max_leaves' = NormLeaves(c.max_leaves, NormAxis(ndim(x), c.axis), numblocks(x))
    /\ pc' = "normalized"
    /\ UNCHANGED <<x, tmp, depth, levels, out>>

\* lines 45-48
MapBlocks ==
    /\ pc = "normalized"
    /\ tmp' = MapChunks(call, x, axis)
    /\ pc' = "mapped"
    /\ UNCHANGED <<x, call, axis, max_leaves, depth, levels, out>>

\* lines 51-54
PlanDepth ==
    /\ pc = "mapped"
    /\ IF DepthRaises(numblocks(tmp), max_leaves)
       THEN pc' = "raised" /\ depth' = depth
       ELSE pc' = "planned" /\ depth' = Depth(numblocks(tmp), max_leaves)
    /\ UNCHANGED <<x, call, axis, max_leaves, tmp, levels, out>>

\* lines 57-58: one intermediate level
CombineLevel ==
    /\ pc = "planned"
    /\ levels < depth - 1
    /\ tmp' = partial_reduce(CombineFn(call, axis), tmp, max_leaves, "True", "None", <<>>)
    /\ levels' = levels + 1
    /\ UNCHANGED <<x, call, pc, axis, max_leaves, depth, out>>

\* lines 59-62: the last level
Aggregate ==
    /\ pc = "planned"
    /\ levels = depth - 1
    /\ tmp' = partial_reduce(AggregateFn(call, axis), tmp, max_leaves, call.keepdims,
                             call.dtype, ReduceName(call, x, axis))
    /\ pc' = "built"
    /\ UNCHANGED <<x, call, axis, max_leaves, depth, levels, out>>

\* the scheduler computes the blocks of the result; with axes numpy rejects
\* the chunk function fails and there is no value
Compute ==
    /\ pc = "built"
    /\ IF ValidAxes(ndim(x), call.axis)
       THEN pc' = "computed" /\ out' = Computed(tmp, x)
       ELSE pc' = "failed" /\ out' = out
    /\ UNCHANGED <<x, call, axis, max_leaves, tmp, depth, levels>>

Steps == MapBlocks \/ PlanDepth \/ CombineLevel \/ Aggregate \/ Compute

Init == InitWith(LayoutSources)

Next == Call(LayoutCalls(x)) \/ Steps

Spec == Init /\ [][Next]_vars

InitVal == InitWith(ValueSources)

NextVal == Call(ValueCalls(x)) \/ Steps

SpecVal == InitVal /\ [][NextVal]_vars

\* the stepwise run and the composed function agree
RunIsReduction == pc = "built" => tmp = reduction(x, call)

-----------------------------------------------------------------------------
(* Notions the properties are stated with.                                 *)

Called == pc # "idle"

Built == pc \in {"built", "computed", "failed"}

AxesOK == Called /\ ValidAxes(ndim(x), call.axis)

\* the reduced axes that exist, and the normalized fan-in of each
Reduced == {i \in Range(ndim(x)) : i \in DOMAIN max_leaves}

FaninsAtLeast(m) == \A i \in Reduced : max_leaves[i] >= m

\* fan-in 2 asked for on every reduced axis
Fanin2 == call.max_leaves.kind # "none" /\ \A i \in Reduced : max_leaves[i] = 2

\* d is max over the reduced axes with fan-in >= 2 of ceil(log_fanin(blocks)), floored at 1
IsDepth(d) ==
    LET C == {i \in Reduced : max_leaves[i] >= 2}
        nb == numblocks(x)
    IN  /\ d >= 1
        /\ \A i \in C : Pow(max_leaves[i], d) >= nb[i + 1]
        /\ d > 1 => \E i \in C : Pow(max_leaves[i], d - 1) < nb[i + 1]

\* the keys an argument names
RECURSIVE LeafKeys(_)
LeafKeys(g) ==
    IF g.leaf THEN {g.key} ELSE UNION {LeafKeys(g.items[i]) : i \in 1 .. Len(g.items)}

\* the blocks of the source a key is computed from
RECURSIVE Gathered(_, _, _)
Gathered(dsk, name, k) ==
    IF k.name = name THEN {k.idx}
    ELSE UNION {Gathered(dsk, name, q) : q \in LeafKeys(dsk[k].args)}

ResultKeys == {k \in DOMAIN tmp.dask : k.name = tmp.name}

\* the single element of a result that has one block of one element
Scalar(o) ==
    LET k == CHOOSE k \in DOMAIN o : TRUE
    IN  o[k].v[CHOOSE c \in DOMAIN o[k].v : TRUE]

IsScalar(o) == Cardinality(DOMAIN o) = 1 /\ \A k \in DOMAIN o : Cardinality(DOMAIN o[k].v) = 1

\* a 1-D array as the sequence of its elements
AsSeq(a) == [i \in 1 .. a.shape[1] |-> a.v[<<i - 1>>]]

-----------------------------------------------------------------------------
(* C1 *)

C1_Reference == Computed(reduction(x, [call EXCEPT !.max_leaves = LeavesNone]), x)

\* C1 as stated: for sum, min, max, any and all, the result with fan-in 2 on
\* every reduced axis equals the result with the fan-in unspecified.
C1_Original ==
    (pc = "computed" /\ call.op \in PlainOps /\ Fanin2) => out = C1_Reference

\* C1 amended: the two results are equal for min, max, any and all, and for
\* sum when the element type adds exactly (integers); a floating-point sum
\* is not covered (the two trees round differently).
C1_FaninIndependent ==
    (pc = "computed" /\ call.op \in PlainOps /\ Fanin2
        /\ (call.op = "sum" => x.dtype # "f4"))
    => out = C1_Reference

C1_Witness ==
    /\ pc = "computed" /\ call.op = "sum" /\ Fanin2 /\ x.dtype = "i8"
    /\ levels >= 1 /\ numblocks(x)[1] = 3
    /\ IsScalar(out) /\ Scalar(out) >= 2

-----------------------------------------------------------------------------
(* C2 *)

\* the elements of the source blocks a key of a 1-D tree is computed from
Segment(k) ==
    LET B == Gathered(tmp.dask, x.name, k)
        lo == SetMin({b[1] : b \in B})
        hi == SetMax({b[1] : b \in B})
        off(b) == SeqSum(SubSeq(x.chunks[1], 1, b))
    IN  SubSeq(AsSeq(x.data), off(lo) + 1, off(hi + 1))

ArgWhich == IF call.op = "argmax" THEN "max" ELSE "min"

-----------------------------------------------------------------------------
(* C7 *)

IsScenarioVar ==
    /\ pc = "computed" /\ x = ScenarioSeqSrc /\ call.op = "var" /\ call.ddof = 0

-----------------------------------------------------------------------------
(* C5 *)

IsScenario46 ==
    /\ Built /\ x = Scenario46Src /\ axis = <<1>> /\ max_leaves = (1 :> 2)

\* C5 as stated: the 4x6 array in 2x3 blocks, reduced over its second axis
\* with fan-in 2, runs 2 combine levels before the final aggregation.
C5_Original == IsScenario46 => levels = 2

\* C5 amended: that reduction has depth 2, which is 1 combine level followed
\* by the final aggregation; in general depth is the maximum over the
\* reduced axes (fan-in 1 excluded) of ceil(log_fanin(blocks)), floored at
\* 1, and the tree has depth - 1 combine levels before the aggregation.
C5_Depth ==
    /\ (Built /\ AxesOK) => (IsDepth(depth) /\ levels = depth - 1)
    /\ IsScenario46 => (depth = 2 /\ levels = 1)

C5_Witness == IsScenario46 /\ pc = "computed" /\ depth = 2 /\ levels = 1

-----------------------------------------------------------------------------
(* C6 *)

HasFanin1 ==
    /\ AxesOK /\ call.max_leaves.kind = "dict" /\ FaninsAtLeast(1)
    /\ \E i \in Reduced : max_leaves[i] = 1

\* C6: with fan-in 1 on a reduced axis (and fan-ins >= 1 on the others)
\* reduction does not raise, and the depth is the maximum over the other
\* reduced axes alone.
C6_Fanin1NoRaise ==
    HasFanin1 => (pc # "raised" /\ (pc \in {"planned", "built", "computed"} => IsDepth(depth)))

\* fan-in 1 on an axis of several blocks, beside an axis that needs depth 2
C6_Witness ==
    /\ HasFanin1 /\ pc = "computed" /\ depth = 2
    /\ \E i \in Reduced : max_leaves[i] = 1 /\ numblocks(x)[i + 1] >= 2

-----------------------------------------------------------------------------
(* C9 *)

\* the blocks of axis i (0-based) that group j of a level gathers
Group(ml, n, i, j) ==
    IF i \in DOMAIN ml
    THEN {b \in Range(n) : j * ml[i] <= b /\ b < (j + 1) * ml[i]}
    ELSE {j}

GroupCount(ml, n, i) == IF i \in DOMAIN ml THEN (n + ml[i] - 1) \div ml[i] ELSE n

LevelOK(a, b, ml) ==
    LET nd == ndim(a)
        na == numblocks(a)
        outs == {k \in DOMAIN b.dask : k.name = b.name}
        ins == {k \in DOMAIN a.dask : k.name = a.name}
        gathers(k) == LeafKeys(b.dask[k].args)
    IN  /\ ndim(b) = nd
        /\ \A i \in 1 .. nd :
              /\ Len(b.chunks[i]) = GroupCount(ml, na[i], i - 1)
              /\ (i - 1) \notin DOMAIN ml => b.chunks[i] = a.chunks[i]
        /\ outs = {Key(b.name, g) : g \in Coords(numblocks(b))}
        /\ \A k \in outs :
              gathers(k) = {Key(a.name, c) : c \in {c \in Coords(na) :
                               \A i \in 1 .. nd : c[i] \in Group(ml, na[i], i - 1, k.idx[i])}}
        /\ \A q \in ins : Cardinality({k \in outs : q \in gathers(k)}) = 1
        /\ \A q \in DOMAIN a.dask : q \in DOMAIN b.dask /\ b.dask[q] = a.dask[q]

\* C9: a partial_reduce level that keeps dimensions cuts the blocks of every
\* axis of the fan-in map into consecutive groups of at most fan-in blocks,
\* makes one task per combination of groups, gathers every input block in
\* exactly one task, leaves the other axes as they are and keeps every task
\* of the input graph.
C9_Level ==
    [][(pc = "planned" /\ (levels' = levels + 1 \/ (pc' = "built" /\ call.keepdims = "True")))
          => LevelOK(tmp, tmp', max_leaves)]_vars

\* a level with a short last group: 3 blocks, fan-in 2
C9_Witness ==
    /\ pc = "planned" /\ levels = 1
    /\ \E i \in Reduced :
          max_leaves[i] = 2 /\ numblocks(x)[i + 1] = 3 /\ numblocks(tmp)[i + 1] = 2
    /\ \E i \in Range(ndim(x)) : i \notin Reduced /\ numblocks(tmp)[i + 1] >= 2

-----------------------------------------------------------------------------
(* C10 *)

\* C10 as stated: when reduction accepts the fan-in (every fan-in >= 1), the
\* result has exactly one block along every reduced axis, no two final tasks
\* share a key, and every block of the source is an ancestor of the result
\* block that covers it.
C10_FullyReduced ==
    (Built /\ AxesOK /\ FaninsAtLeast(1))
    => /\ Cardinality(ResultKeys)
            = Cardinality({DropPos(c, Reduced) : c \in Coords(numblocks(x))})
       /\ Truthy(call.keepdims) =>
            \A i \in Reduced : tmp.chunks[i + 1] = <<1>>
       /\ \A c \in Coords(numblocks(x)) :
            \E k \in ResultKeys :
                /\ c \in Gathered(tmp.dask, x.name, k)
                /\ DropPos(c, Reduced)
                     = (IF Truthy(call.keepdims) THEN DropPos(k.idx, Reduced) ELSE k.idx)

-----------------------------------------------------------------------------
(* C3 *)

\* C3 as stated: with an axis outside [-rank, rank) or an axis given twice,
\* reduction stops with InvalidAxis before any task is built.
C3_InvalidAxis ==
    (Called /\ ~ValidAxes(ndim(x), call.axis)) => (pc = "InvalidAxis" /\ tmp = NoArray)

-----------------------------------------------------------------------------
(* C4 *)

Raises(c) ==
    LET ax == NormAxis(ndim(x), c.axis)
    IN  DepthRaises(numblocks(x), NormLeaves(c.max_leaves, ax, numblocks(x)))

\* C4 as stated: a task that two invocations on the same source both produce
\* under one key is the same task, also when they differ in the fan-in only
\* (here: two invocations that differ in the fan-in, every fan-in >= 2).
C4_SameKeySameTask ==
    (pc = "built" /\ FaninsAtLeast(2)) =>
        \A ml \in LeavesArgs(ndim(x)) :
            LET c2 == [call EXCEPT !.max_leaves = ml]
                ml2 == NormLeaves(ml, axis, numblocks(x))
            IN  (~Raises(c2) /\ \A i \in DOMAIN ml2 : ml2[i] >= 2) =>
                    LET g2 == reduction(x, c2).dask
                    IN  \A k \in (DOMAIN tmp.dask) \cap (DOMAIN g2) : tmp.dask[k] = g2[k]

-----------------------------------------------------------------------------
(* C8 *)

C8_Dropped == reduction(x, [call EXCEPT !.keepdims = "False"])

\* C8 as stated: for every fan-in, keepdims=True gives the rank of the source
\* with one block of size 1 on every reduced axis, keepdims=False removes
\* exactly the reduced axes, the other axes keep the layout of the source,
\* and the values of the two results are the same.
C8_KeepDims ==
    (Built /\ AxesOK /\ FaninsAtLeast(1) /\ call.keepdims \in {"True", "False"})
    => /\ IF Truthy(call.keepdims)
          THEN tmp.chunks = [i \in 1 .. ndim(x) |->
                                IF (i - 1) \in Reduced THEN <<1>> ELSE x.chunks[i]]
          ELSE tmp.chunks = DropPos(x.chunks, Reduced)
       /\ (pc = "computed" /\ Truthy(call.keepdims)) =>
            \A k \in DOMAIN out :
                LET k2 == Key(C8_Dropped.name, DropPos(k.idx, Reduced))
                IN  /\ k2 \in DOMAIN C8_Dropped.dask
                    /\ DropAxes(out[k], Reduced) = Eval(C8_Dropped.dask, x, k2)

====
